---- MODULE Spec2Model ----
(***************************************************************************)
(* Study planner service (src/Burdeos.py): three SQLite tables behind one  *)
(* module-global connection and one module-global cursor, a bootstrap that *)
(* seeds the store at import time, and FastAPI handlers that run SQL       *)
(* statements on the shared cursor.                                        *)
(*                                                                         *)
(* Every handler is modelled as a step machine whose program counter is    *)
(* the source line of the next statement that touches the shared cursor.   *)
(* Spec runs each handler to completion in one action (requests served one *)
(* at a time); SpecConc interleaves the same steps of two worker threads.  *)
(***************************************************************************)
EXTENDS Integers, Sequences, FiniteSets, TLC

VARIABLES
  subjects,         \* rows of table subjects: [id, name]
  tasks,            \* rows of table tasks: [id, subject_id, title, due_date, is_completed]
  study_plans,      \* rows of table study_plans: [id, name, start_date, end_date]
  sqlite_sequence,  \* AUTOINCREMENT high-water mark of each table
  cursor,           \* the shared cursor: pending result rows and rowcount
  durable,          \* the tables as of the last conn.commit()
  last,             \* Spec: the request served last, with its outcome
  req,              \* SpecConc: the request each worker thread is serving
  nreq,             \* requests accepted so far
  nstart,           \* process restarts so far
  named             \* history: every [id, name] row table subjects ever held

vars ==
  <<subjects, tasks, study_plans, sqlite_sequence, cursor, durable, last, req, nreq,
    nstart, named>>

-----------------------------------------------------------------------------
(* Bounds of the model *)

\* Requests and restarts a behaviour of Spec, and of SpecConc, may hold.
MaxEvents == 3
MaxConcEvents == 3

Threads == {"t1", "t2"}

-----------------------------------------------------------------------------
(* Values *)

Null == "<NULL>"
None == <<>>

\* Python str values that get case-folded are sequences of characters.
S_complete == <<"c", "o", "m", "p", "l", "e", "t", "e">>
S_Complete == <<"C", "o", "m", "p", "l", "e", "t", "e">>
S_completed == <<"c", "o", "m", "p", "l", "e", "t", "e", "d">>
S_incomplete == <<"i", "n", "c", "o", "m", "p", "l", "e", "t", "e">>

LowerChar(c) ==
  CASE c = "C" -> "c" [] c = "O" -> "o" [] c = "M" -> "m" [] c = "P" -> "p"
    [] c = "L" -> "l" [] c = "E" -> "e" [] c = "T" -> "t" [] c = "D" -> "d"
    [] c = "I" -> "i" [] c = "N" -> "n" [] OTHER -> c

Lower(s) == [i \in 1..Len(s) |-> LowerChar(s[i])]

\* A JSON body field: left out, null, or a string.
Omitted == [given |-> "omitted", s |-> <<>>]
JsonNull == [given |-> "null", s |-> <<>>]
JsonStr(s) == [given |-> "str", s |-> s]

\* Optional[str] = "incomplete": the default fills in for a field left out only.
TaskIsCompletedField(f) == IF f.given = "omitted" THEN JsonStr(S_incomplete) ELSE f

TaskModel(subject_name, title, due_date, f) ==
  [subject_name |-> subject_name, title |-> title, due_date |-> due_date,
   is_completed |-> TaskIsCompletedField(f)]

Max(a, b) == IF a >= b THEN a ELSE b

MaxId(R) ==
  IF R = {} THEN 0
  ELSE LET r == CHOOSE x \in R : \A y \in R : y.id <= x.id
       IN r.id

\* Result rows in rowid order. R is a set of [id, row].
RECURSIVE RowsById(_)
RowsById(R) ==
  IF R = {} THEN <<>>
  ELSE LET r == CHOOSE x \in R : \A y \in R : x.id <= y.id
       IN <<r.row>> \o RowsById(R \ {r})

-----------------------------------------------------------------------------
(* The store and the SQL statements run on the shared cursor *)

Store ==
  [subjects |-> subjects, tasks |-> tasks, study_plans |-> study_plans,
   seq |-> sqlite_sequence, cursor |-> cursor, durable |-> durable]

SetStore(m) ==
  /\ subjects' = m.subjects
  /\ tasks' = m.tasks
  /\ study_plans' = m.study_plans
  /\ sqlite_sequence' = m.seq
  /\ cursor' = m.cursor
  /\ durable' = m.durable
  /\ named' = named \cup m.subjects

Tables(m) ==
  [subjects |-> m.subjects, tasks |-> m.tasks, study_plans |-> m.study_plans,
   seq |-> m.seq]

EmptyStore ==
  [subjects |-> {}, tasks |-> {}, study_plans |-> {},
   seq |-> [subjects |-> 0, tasks |-> 0, study_plans |-> 0],
   cursor |-> [rows |-> <<>>, rowcount |-> -1],
   durable |-> [subjects |-> {}, tasks |-> {}, study_plans |-> {},
                seq |-> [subjects |-> 0, tasks |-> 0, study_plans |-> 0]]]

\* conn.commit(): the one connection has one transaction, opened by the first
\* INSERT, UPDATE or DELETE after the last commit, whichever handler ran it.
Commit(m) == [m EXCEPT !.durable = Tables(m)]

\* sqlite3.connect() on the file a stopped process left: what was never
\* committed is gone, and the cursor is new.
Connect(m) ==
  [subjects |-> m.durable.subjects, tasks |-> m.durable.tasks,
   study_plans |-> m.durable.study_plans, seq |-> m.durable.seq,
   cursor |-> [rows |-> <<>>, rowcount |-> -1], durable |-> m.durable]

\* INTEGER PRIMARY KEY AUTOINCREMENT: one more than the largest id ever used.
AutoIncrement(R, high) == Max(MaxId(R), high) + 1

Selected(m, rows) == [m EXCEPT !.cursor = [rows |-> rows, rowcount |-> -1]]
Changed(m, n) == [m EXCEPT !.cursor = [rows |-> <<>>, rowcount |-> n]]

\* Mutant: the column declared without UNIQUE.
NameTakenIgnored(m, name, own) == FALSE

\* name TEXT NOT NULL UNIQUE: the row (if any) that forbids storing name in
\* a row other than those in own.
NameTaken(m, name, own) == \E s \in m.subjects \ own : s.name = name

\* "SELECT id FROM subjects WHERE name=?"
SelectSubjectId(m, name) ==
  Selected(m, RowsById({[id |-> s.id, row |-> <<s.id>>] : s \in {x \in m.subjects : x.name = name}}))

\* "INSERT INTO subjects (name) VALUES (?)"; exc: sqlite3.IntegrityError.
InsertSubject(m, name) ==
  IF NameTaken(m, name, {})
  THEN [m |-> Changed(m, -1), exc |-> TRUE]
  ELSE LET id == AutoIncrement(m.subjects, m.seq.subjects)
       IN [m |-> Changed([m EXCEPT !.subjects = @ \cup {[id |-> id, name |-> name]},
                                   !.seq.subjects = id], 1),
           exc |-> FALSE]

\* "UPDATE subjects SET name=? WHERE name=?"; exc: sqlite3.IntegrityError.
UpdateSubjectName(m, new, old) ==
  LET hit == {s \in m.subjects : s.name = old}
  IN IF hit # {} /\ (NameTaken(m, new, hit) \/ Cardinality(hit) > 1)
     THEN [m |-> Changed(m, -1), exc |-> TRUE]
     ELSE [m |-> Changed([m EXCEPT !.subjects =
                            (@ \ hit) \cup {[s EXCEPT !.name = new] : s \in hit}],
                         Cardinality(hit)),
           exc |-> FALSE]

\* Mutant: the delete cascades to the Subject's Tasks.
DeleteSubjectCascade(m, name) ==
  LET hit == {s \in m.subjects : s.name = name}
  IN Changed([m EXCEPT !.subjects = @ \ hit,
                       !.tasks = {t \in @ : \A s \in hit : t.subject_id # s.id}],
             Cardinality(hit))

\* "DELETE FROM subjects WHERE name=?" (foreign keys are not enforced: no
\* PRAGMA foreign_keys is issued on the connection).
DeleteSubject(m, name) ==
  LET hit == {s \in m.subjects : s.name = name}
  IN Changed([m EXCEPT !.subjects = @ \ hit], Cardinality(hit))

\* "INSERT INTO tasks (subject_id, title, due_date, is_completed) VALUES (?, ?, ?, ?)"
InsertTask(m, subject_id, title, due_date, is_completed) ==
  LET id == AutoIncrement(m.tasks, m.seq.tasks)
  IN Changed([m EXCEPT !.tasks = @ \cup {[id |-> id, subject_id |-> subject_id,
                                          title |-> title, due_date |-> due_date,
                                          is_completed |-> is_completed]},
                       !.seq.tasks = id], 1)

\* "UPDATE tasks SET is_completed=<flag> WHERE id=?"
UpdateTaskCompleted(m, id, flag) ==
  LET hit == {t \in m.tasks : t.id = id}
  IN Changed([m EXCEPT !.tasks =
                (@ \ hit) \cup {[t EXCEPT !.is_completed = flag] : t \in hit}],
             Cardinality(hit))

\* "UPDATE tasks SET subject_id=?, title=?, due_date=?, is_completed=? WHERE id=?"
UpdateTaskRow(m, id, subject_id, title, due_date, is_completed) ==
  LET hit == {t \in m.tasks : t.id = id}
  IN Changed([m EXCEPT !.tasks =
                (@ \ hit) \cup {[id |-> t.id, subject_id |-> subject_id,
                                 title |-> title, due_date |-> due_date,
                                 is_completed |-> is_completed] : t \in hit}],
             Cardinality(hit))

\* "DELETE FROM tasks WHERE id=?"
DeleteTaskRow(m, id) ==
  LET hit == {t \in m.tasks : t.id = id}
  IN Changed([m EXCEPT !.tasks = @ \ hit], Cardinality(hit))

\* "SELECT id, subject_id, title, due_date, is_completed FROM tasks WHERE subject_id=?"
SelectTasksOfSubject(m, subject_id) ==
  Selected(m, RowsById({[id |-> t.id,
                         row |-> <<t.id, t.subject_id, t.title, t.due_date, t.is_completed>>]
                        : t \in {x \in m.tasks : x.subject_id = subject_id}}))

\* "SELECT tasks.id, subjects.name, tasks.title, tasks.due_date, tasks.is_completed
\*  FROM tasks JOIN subjects ON tasks.subject_id = subjects.id"
TasksJoinSubjects(m) ==
  {p \in m.tasks \X m.subjects : p[1].subject_id = p[2].id}

SelectAllTasks(m) ==
  Selected(m, RowsById({[id |-> p[1].id,
                         row |-> <<p[1].id, p[2].name, p[1].title, p[1].due_date,
                                   p[1].is_completed>>]
                        : p \in TasksJoinSubjects(m)}))

\* Mutant: JOIN in place of LEFT JOIN.
SubjectsInnerJoinTasks(m) ==
  {[s |-> p[1], tid |-> p[2].id, tnull |-> FALSE]
     : p \in {q \in m.subjects \X m.tasks : q[1].id = q[2].subject_id}}

\* "SELECT subjects.id, subjects.name, COUNT(tasks.id) FROM subjects
\*  LEFT JOIN tasks ON subjects.id = tasks.subject_id GROUP BY subjects.id"
\* A subject without tasks joins one row whose tasks columns are NULL.
SubjectsLeftJoinTasks(m) ==
  {[s |-> p[1], tid |-> p[2].id, tnull |-> FALSE]
     : p \in {q \in m.subjects \X m.tasks : q[1].id = q[2].subject_id}}
  \cup {[s |-> s, tid |-> 0, tnull |-> TRUE]
          : s \in {x \in m.subjects : \A t \in m.tasks : t.subject_id # x.id}}

SelectSubjectsWithTaskCount(m) ==
  LET J == SubjectsLeftJoinTasks(m)
      gids == {j.s.id : j \in J}
      group(g) == {j \in J : j.s.id = g}
      name(g) == (CHOOSE j \in group(g) : TRUE).s.name
      count(g) == Cardinality({j \in group(g) : ~j.tnull})
  IN Selected(m, RowsById({[id |-> g, row |-> <<g, name(g), count(g)>>] : g \in gids}))

\* "INSERT INTO study_plans (name, start_date, end_date) VALUES (?, ?, ?)"
InsertStudyPlan(m, name, start_date, end_date) ==
  LET id == AutoIncrement(m.study_plans, m.seq.study_plans)
  IN Changed([m EXCEPT !.study_plans = @ \cup {[id |-> id, name |-> name,
                                                start_date |-> start_date,
                                                end_date |-> end_date]},
                       !.seq.study_plans = id], 1)

\* "UPDATE study_plans SET name=?, start_date=?, end_date=? WHERE id=?"
UpdateStudyPlanRow(m, id, name, start_date, end_date) ==
  LET hit == {p \in m.study_plans : p.id = id}
  IN Changed([m EXCEPT !.study_plans =
                (@ \ hit) \cup {[id |-> p.id, name |-> name, start_date |-> start_date,
                                 end_date |-> end_date] : p \in hit}],
             Cardinality(hit))

\* "DELETE FROM study_plans WHERE id=?"
DeleteStudyPlanRow(m, id) ==
  LET hit == {p \in m.study_plans : p.id = id}
  IN Changed([m EXCEPT !.study_plans = @ \ hit], Cardinality(hit))

\* cursor.fetchone(): the next pending row, or None.
FetchOne(m) ==
  IF m.cursor.rows = <<>>
  THEN [m |-> m, row |-> None]
  ELSE [m |-> [m EXCEPT !.cursor.rows = Tail(@)], row |-> Head(m.cursor.rows)]

\* cursor.fetchall(): every pending row.
FetchAll(m) == [m |-> [m EXCEPT !.cursor.rows = <<>>], rows |-> m.cursor.rows]

-----------------------------------------------------------------------------
(* Import-time bootstrap, lines 13-60 *)

sample_subjects == <<"Mathematics", "Science", "History", "Geography", "Art">>

sample_tasks ==
  << <<1, "Math Homework", "2024-09-20", 0>>,
     <<2, "Science Project", "2024-09-21", 0>>,
     <<3, "History Essay", "2024-09-22", 1>>,
     <<4, "Geography Quiz", "2024-09-23", 0>>,
     <<5, "Art Assignment", "2024-09-24", 1>> >>

\* for subject in sample_subjects: try INSERT except IntegrityError: pass
RECURSIVE SeedSubjects(_, _)
SeedSubjects(m, names) ==
  IF names = <<>> THEN m
  ELSE SeedSubjects(InsertSubject(m, Head(names)).m, Tail(names))

\* One row of the INSERT OR IGNORE: table tasks has no constraint a seed
\* row can conflict with (its id is assigned), so nothing is ever ignored.
InsertOrIgnoreTask(m, row) == InsertTask(m, row[1], row[2], row[3], row[4])

\* cursor.executemany("INSERT OR IGNORE INTO tasks ...", sample_tasks)
RECURSIVE SeedTasks(_, _)
SeedTasks(m, rows) ==
  IF rows = <<>> THEN m
  ELSE SeedTasks(InsertOrIgnoreTask(m, Head(rows)), Tail(rows))

\* The CREATE TABLE IF NOT EXISTS statements keep existing tables as they are.
Bootstrap(m) ==
  Commit(Changed(SeedTasks(SeedSubjects(Connect(m), sample_subjects), sample_tasks),
                 Len(sample_tasks)))

-----------------------------------------------------------------------------
(* Request handlers. h is the handler's frame: its arguments, the line it  *)
(* is at (0 once it has returned or raised), its local `subject`, and its  *)
(* outcome. conn.commit() changes nothing a statement on the same          *)
(* connection can see, so it is part of the step that precedes it; in      *)
(* between, the statements of one handler may be followed by another's.    *)

NewRequest(op, args, pc) ==
  [op |-> op, args |-> args, pc |-> pc, subject |-> None,
   status |-> "running", result |-> <<>>]

Goto(h, pc) == [h EXCEPT !.pc = pc]
Return(h, result) == [h EXCEPT !.pc = 0, !.status = "ok", !.result = result]
\* HTTPException(400) is Conflict, HTTPException(404) is NotFound, any other
\* exception leaves the handler as a 500, InternalError.
Raise(h, kind) == [h EXCEPT !.pc = 0, !.status = kind]

\* Mutant: the stored integer compared with the string "1".
RenderedComparingStr(flag) == "incomplete"

\* "complete" if row[4] == 1 else "incomplete"
Rendered(flag) == IF flag = 1 THEN "complete" ELSE "incomplete"

\* 1 if task.is_completed.lower() == "complete" else 0; exc: AttributeError,
\* None has no lower().
IsCompleted(f) ==
  IF f.given = "null" THEN [exc |-> TRUE, flag |-> 0]
  ELSE [exc |-> FALSE, flag |-> IF Lower(f.s) = S_complete THEN 1 ELSE 0]

\* The handlers that end on "if cursor.rowcount == 0: raise 404", and commit
\* when they do not raise.
RowcountCheck(m, h) ==
  IF m.cursor.rowcount = 0
  THEN [m |-> m, h |-> Raise(h, "NotFound")]
  ELSE [m |-> Commit(m), h |-> Return(h, <<>>)]

create_subject(m, h) ==
  CASE h.pc = 90 -> [m |-> SelectSubjectId(m, h.args.name), h |-> Goto(h, 91)]
    [] h.pc = 91 ->
         LET f == FetchOne(m)
         IN [m |-> f.m, h |-> IF f.row # None THEN Raise(h, "Conflict") ELSE Goto(h, 94)]
    [] h.pc = 94 ->
         LET r == InsertSubject(m, h.args.name)
         IN IF r.exc THEN [m |-> r.m, h |-> Raise(h, "InternalError")]
            ELSE [m |-> Commit(r.m), h |-> Return(h, <<>>)]

create_task(m, h) ==
  CASE h.pc = 109 -> [m |-> SelectSubjectId(m, h.args.subject_name), h |-> Goto(h, 110)]
    [] h.pc = 110 ->
         LET f == FetchOne(m)
         IN [m |-> f.m,
             h |-> IF f.row = None THEN Raise(h, "NotFound")
                   ELSE Goto([h EXCEPT !.subject = f.row], 116)]
    [] h.pc = 116 ->
         LET c == IsCompleted(h.args.is_completed)
         IN IF c.exc THEN [m |-> m, h |-> Raise(h, "InternalError")]
            ELSE [m |-> Commit(InsertTask(m, h.subject[1], h.args.title, h.args.due_date,
                                          c.flag)),
                  h |-> Return(h, <<>>)]

get_tasks_for_subject(m, h) ==
  CASE h.pc = 126 -> [m |-> SelectSubjectId(m, h.args.subject_name), h |-> Goto(h, 127)]
    [] h.pc = 127 ->
         LET f == FetchOne(m)
         IN [m |-> f.m,
             h |-> IF f.row = None THEN Raise(h, "NotFound")
                   ELSE Goto([h EXCEPT !.subject = f.row], 132)]
    [] h.pc = 132 -> [m |-> SelectTasksOfSubject(m, h.subject[1]), h |-> Goto(h, 133)]
    [] h.pc = 133 ->
         LET f == FetchAll(m)
         IN [m |-> f.m,
             h |-> Return(h, [i \in 1..Len(f.rows) |->
                     [id |-> f.rows[i][1], subject_name |-> h.args.subject_name,
                      title |-> f.rows[i][3], due_date |-> f.rows[i][4],
                      is_completed |-> Rendered(f.rows[i][5])]])]

complete_task(m, h) ==
  CASE h.pc = 142 -> [m |-> UpdateTaskCompleted(m, h.args.task_id, 1), h |-> Goto(h, 143)]
    [] h.pc = 143 -> RowcountCheck(m, h)

get_all_tasks(m, h) ==
  CASE h.pc = 151 -> [m |-> SelectAllTasks(m), h |-> Goto(h, 156)]
    [] h.pc = 156 ->
         LET f == FetchAll(m)
         IN [m |-> f.m,
             h |-> Return(h, [i \in 1..Len(f.rows) |->
                     [id |-> f.rows[i][1], subject_name |-> f.rows[i][2],
                      title |-> f.rows[i][3], due_date |-> f.rows[i][4],
                      is_completed |-> Rendered(f.rows[i][5])]])]

update_task(m, h) ==
  CASE h.pc = 166 -> [m |-> SelectSubjectId(m, h.args.subject_name), h |-> Goto(h, 167)]
    [] h.pc = 167 ->
         LET f == FetchOne(m)
         IN [m |-> f.m,
             h |-> IF f.row = None THEN Raise(h, "NotFound")
                   ELSE Goto([h EXCEPT !.subject = f.row], 173)]
    [] h.pc = 173 ->
         LET c == IsCompleted(h.args.is_completed)
         IN IF c.exc THEN [m |-> m, h |-> Raise(h, "InternalError")]
            ELSE [m |-> UpdateTaskRow(m, h.args.task_id, h.subject[1], h.args.title,
                                      h.args.due_date, c.flag),
                  h |-> Goto(h, 180)]
    [] h.pc = 180 -> RowcountCheck(m, h)

delete_task(m, h) ==
  CASE h.pc = 190 -> [m |-> DeleteTaskRow(m, h.args.task_id), h |-> Goto(h, 191)]
    [] h.pc = 191 -> RowcountCheck(m, h)

create_study_plan(m, h) ==
  CASE h.pc = 199 ->
         [m |-> Commit(InsertStudyPlan(m, h.args.name, h.args.start_date,
                                       h.args.end_date)),
          h |-> Return(h, <<>>)]

update_study_plan(m, h) ==
  CASE h.pc = 214 ->
         [m |-> UpdateStudyPlanRow(m, h.args.plan_id, h.args.name, h.args.start_date,
                                   h.args.end_date),
          h |-> Goto(h, 220)]
    [] h.pc = 220 -> RowcountCheck(m, h)

mark_task_incomplete(m, h) ==
  CASE h.pc = 229 -> [m |-> UpdateTaskCompleted(m, h.args.task_id, 0), h |-> Goto(h, 230)]
    [] h.pc = 230 -> RowcountCheck(m, h)

delete_subject(m, h) ==
  CASE h.pc = 238 -> [m |-> DeleteSubject(m, h.args.subject_name), h |-> Goto(h, 239)]
    [] h.pc = 239 -> RowcountCheck(m, h)

\* Mutant: the rowcount check left out.
update_subject_unchecked(m, h) ==
  CASE h.pc = 279 ->
         LET r == UpdateSubjectName(m, h.args.name, h.args.subject_name)
         IN [m |-> r.m, h |-> IF r.exc THEN Raise(h, "InternalError") ELSE Goto(h, 280)]
    [] h.pc = 280 -> [m |-> Commit(m), h |-> Return(h, <<>>)]

update_subject(m, h) ==
  CASE h.pc = 279 ->
         LET r == UpdateSubjectName(m, h.args.name, h.args.subject_name)
         IN [m |-> r.m, h |-> IF r.exc THEN Raise(h, "InternalError") ELSE Goto(h, 280)]
    [] h.pc = 280 -> RowcountCheck(m, h)

delete_study_plan(m, h) ==
  CASE h.pc = 304 -> [m |-> DeleteStudyPlanRow(m, h.args.plan_id), h |-> Goto(h, 305)]
    [] h.pc = 305 -> RowcountCheck(m, h)

get_subjects_with_task_count(m, h) ==
  CASE h.pc = 313 -> [m |-> SelectSubjectsWithTaskCount(m), h |-> Goto(h, 319)]
    [] h.pc = 319 ->
         LET f == FetchAll(m)
         IN [m |-> f.m,
             h |-> Return(h, [i \in 1..Len(f.rows) |->
                     [id |-> f.rows[i][1], name |-> f.rows[i][2],
                      task_count |-> f.rows[i][3]]])]

\* One step of the handler whose frame is h.
Step(m, h) ==
  CASE h.op = "create_subject" -> create_subject(m, h)
    [] h.op = "create_task" -> create_task(m, h)
    [] h.op = "get_tasks_for_subject" -> get_tasks_for_subject(m, h)
    [] h.op = "complete_task" -> complete_task(m, h)
    [] h.op = "get_all_tasks" -> get_all_tasks(m, h)
    [] h.op = "update_task" -> update_task(m, h)
    [] h.op = "delete_task" -> delete_task(m, h)
    [] h.op = "create_study_plan" -> create_study_plan(m, h)
    [] h.op = "update_study_plan" -> update_study_plan(m, h)
    [] h.op = "mark_task_incomplete" -> mark_task_incomplete(m, h)
    [] h.op = "delete_subject" -> delete_subject(m, h)
    [] h.op = "update_subject" -> update_subject(m, h)
    [] h.op = "delete_study_plan" -> delete_study_plan(m, h)
    [] h.op = "get_subjects_with_task_count" -> get_subjects_with_task_count(m, h)

\* The handler run from its first line to its return or raise, nothing else
\* touching the cursor meanwhile.
RECURSIVE Run(_, _)
Run(m, h) ==
  IF h.pc = 0 THEN [m |-> m, h |-> h]
  ELSE LET r == Step(m, h) IN Run(r.m, r.h)


-----------------------------------------------------------------------------
(* Requests the clients send *)

ReqNames == {"Mathematics", "Art", "Music"}
ReqTaskSubjects == {"Art", "Music"}
ReqTaskIds == {5, 6}
ReqTitles == {"Practice scales"}
ReqDueDates == {"2024-09-25"}
ReqStatuses ==
  {Omitted, JsonNull, JsonStr(S_complete), JsonStr(S_Complete), JsonStr(S_completed)}
ReqPlanIds == {1, 2}
ReqPlanNames == {"Finals", "Midterms"}
ReqPlanDates == {Null}

Idle == NewRequest("idle", <<>>, 0)
Started == [Idle EXCEPT !.op = "startup", !.status = "ok"]

-----------------------------------------------------------------------------
(* Spec: requests served one at a time *)

Init ==
  /\ LET m == Bootstrap(EmptyStore)
     IN /\ subjects = m.subjects
        /\ tasks = m.tasks
        /\ study_plans = m.study_plans
        /\ sqlite_sequence = m.seq
        /\ cursor = m.cursor
        /\ durable = m.durable
  /\ last = Started
  /\ req = [t \in Threads |-> Idle]
  /\ nreq = 0
  /\ nstart = 0
  /\ named = subjects

\* One more request is taken; the workers of SpecConc play no part.
OneRequest ==
  /\ nreq + nstart < MaxEvents
  /\ nreq' = nreq + 1
  /\ UNCHANGED <<req, nstart>>

\* The handler runs from its first line to its return or raise.
Serve(h) ==
  LET r == Run(Store, h)
  IN SetStore(r.m) /\ last' = r.h

\* The process is started again on the store it left behind.
Reboot ==
  /\ \A t \in Threads : req[t].pc = 0
  /\ SetStore(Bootstrap(Store))
  /\ last' = Started
  /\ req' = [t \in Threads |-> Idle]
  /\ nstart' = nstart + 1
  /\ UNCHANGED nreq

Restart ==
  /\ nreq + nstart < MaxEvents
  /\ Reboot

CreateSubject ==
  \E name \in ReqNames :
    /\ OneRequest
    /\ Serve(NewRequest("create_subject", [name |-> name], 90))

CreateTask ==
  \E name \in ReqTaskSubjects, title \in ReqTitles, due \in ReqDueDates,
     st \in ReqStatuses :
    /\ OneRequest
    /\ Serve(NewRequest("create_task", TaskModel(name, title, due, st), 109))

GetTasksForSubject ==
  \E name \in ReqNames :
    /\ OneRequest
    /\ Serve(NewRequest("get_tasks_for_subject", [subject_name |-> name], 126))

CompleteTask ==
  \E id \in ReqTaskIds :
    /\ OneRequest
    /\ Serve(NewRequest("complete_task", [task_id |-> id], 142))

GetAllTasks ==
  /\ OneRequest
  /\ Serve(NewRequest("get_all_tasks", <<>>, 151))

UpdateTask ==
  \E id \in ReqTaskIds, name \in ReqTaskSubjects, title \in ReqTitles,
     due \in ReqDueDates, st \in ReqStatuses :
    /\ OneRequest
    /\ Serve(NewRequest("update_task",
                        TaskModel(name, title, due, st) @@ [task_id |-> id], 166))

DeleteTask ==
  \E id \in ReqTaskIds :
    /\ OneRequest
    /\ Serve(NewRequest("delete_task", [task_id |-> id], 190))

CreateStudyPlan ==
  \E name \in ReqPlanNames, sd \in ReqPlanDates, ed \in ReqPlanDates :
    /\ OneRequest
    /\ Serve(NewRequest("create_study_plan",
                        [name |-> name, start_date |-> sd, end_date |-> ed], 199))

UpdateStudyPlan ==
  \E id \in ReqPlanIds, name \in ReqPlanNames, sd \in ReqPlanDates, ed \in ReqPlanDates :
    /\ OneRequest
    /\ Serve(NewRequest("update_study_plan",
                        [plan_id |-> id, name |-> name, start_date |-> sd,
                         end_date |-> ed], 214))

MarkTaskIncomplete ==
  \E id \in ReqTaskIds :
    /\ OneRequest
    /\ Serve(NewRequest("mark_task_incomplete", [task_id |-> id], 229))

DeleteSubjectReq ==
  \E name \in ReqNames :
    /\ OneRequest
    /\ Serve(NewRequest("delete_subject", [subject_name |-> name], 238))

UpdateSubject ==
  \E old \in ReqNames, new \in ReqNames :
    /\ OneRequest
    /\ Serve(NewRequest("update_subject", [subject_name |-> old, name |-> new], 279))

DeleteStudyPlan ==
  \E id \in ReqPlanIds :
    /\ OneRequest
    /\ Serve(NewRequest("delete_study_plan", [plan_id |-> id], 304))

GetSubjectsWithTaskCount ==
  /\ OneRequest
  /\ Serve(NewRequest("get_subjects_with_task_count", <<>>, 313))

Next ==
  \/ Restart
  \/ CreateSubject
  \/ CreateTask
  \/ GetTasksForSubject
  \/ CompleteTask
  \/ GetAllTasks
  \/ UpdateTask
  \/ DeleteTask
  \/ CreateStudyPlan
  \/ UpdateStudyPlan
  \/ MarkTaskIncomplete
  \/ DeleteSubjectReq
  \/ UpdateSubject
  \/ DeleteStudyPlan
  \/ GetSubjectsWithTaskCount

Spec == Init /\ [][Next]_vars


-----------------------------------------------------------------------------
(* SpecConc: FastAPI runs the `def` handlers on worker threads; the threads *)
(* share conn and cursor (check_same_thread=False) and may be switched      *)
(* between any two statements.                                              *)

ConcStatuses == {Omitted, JsonStr(S_Complete)}

\* A free worker takes a request and runs its first statement.
Accept(t, h) ==
  /\ nreq + nstart < MaxConcEvents
  /\ LET r == Step(Store, h)
     IN SetStore(r.m) /\ req' = [req EXCEPT ![t] = r.h]
  /\ nreq' = nreq + 1
  /\ UNCHANGED <<last, nstart>>

\* A worker runs the next statement of the request it is serving.
Continue(t) ==
  /\ LET r == Step(Store, req[t])
     IN SetStore(r.m) /\ req' = [req EXCEPT ![t] = r.h]
  /\ UNCHANGED <<last, nreq, nstart>>

ConcRestart ==
  /\ nreq + nstart < MaxConcEvents
  /\ Reboot

ConcCreateSubject ==
  \E t \in Threads, name \in ReqNames :
    /\ req[t].pc = 0
    /\ Accept(t, NewRequest("create_subject", [name |-> name], 90))

ConcCreateTask ==
  \E t \in Threads, name \in ReqTaskSubjects, title \in ReqTitles, due \in ReqDueDates,
     st \in ConcStatuses :
    /\ req[t].pc = 0
    /\ Accept(t, NewRequest("create_task", TaskModel(name, title, due, st), 109))

ConcDeleteSubject ==
  \E t \in Threads, name \in ReqNames :
    /\ req[t].pc = 0
    /\ Accept(t, NewRequest("delete_subject", [subject_name |-> name], 238))

ConcUpdateSubject ==
  \E t \in Threads, old \in ReqNames, new \in ReqNames :
    /\ req[t].pc = 0
    /\ Accept(t, NewRequest("update_subject", [subject_name |-> old, name |-> new], 279))

ConcContinue ==
  \E t \in Threads :
    /\ req[t].pc # 0
    /\ Continue(t)

NextConc ==
  \/ ConcRestart
  \/ ConcCreateSubject
  \/ ConcCreateTask
  \/ ConcDeleteSubject
  \/ ConcUpdateSubject
  \/ ConcContinue

SpecConc == Init /\ [][NextConc]_vars


-----------------------------------------------------------------------------
(* Properties *)

\* The step serves one request of Spec; last' is that request and its outcome.
Served(op) == nreq' = nreq + 1 /\ last'.op = op

SubjectNamed(name) == \E s \in subjects : s.name = name
TaskWithId(id) == \E t \in tasks : t.id = id
PlanWithId(id) == \E p \in study_plans : p.id = id

TablesUnchanged == subjects' = subjects /\ tasks' = tasks /\ study_plans' = study_plans

\* The entries a read returns in the current state.
ListAllTasks == Run(Store, NewRequest("get_all_tasks", <<>>, 151)).h
ListTasksForSubject(name) ==
  Run(Store, NewRequest("get_tasks_for_subject", [subject_name |-> name], 126)).h

Entries(result) == {result[i] : i \in 1..Len(result)}

\* C1: in every reachable state no two Subject rows have the same name, also
\* when the statements of concurrent requests interleave.
C1_SubjectNamesUnique == \A a \in subjects, b \in subjects : a.name = b.name => a = b

\* Two createSubject calls with one name both passed the existence check:
\* one inserted, the other's INSERT raised IntegrityError.
C1_Witness ==
  \E t \in Threads, u \in Threads :
    /\ t # u
    /\ req[t].op = "create_subject" /\ req[u].op = "create_subject"
    /\ req[t].args.name = req[u].args.name
    /\ req[t].status = "ok" /\ req[u].status = "InternalError"

\* The error kind the request h must end in, judged in the state it is
\* served in; "none" when no existence or uniqueness precondition fails.
C2_Expected(h) ==
  CASE h.op = "create_subject" ->
         IF SubjectNamed(h.args.name) THEN "Conflict" ELSE "none"
    [] h.op = "create_task" ->
         IF ~SubjectNamed(h.args.subject_name) THEN "NotFound" ELSE "none"
    [] h.op = "update_task" ->
         IF ~SubjectNamed(h.args.subject_name) \/ ~TaskWithId(h.args.task_id)
         THEN "NotFound" ELSE "none"
    [] h.op \in {"complete_task", "mark_task_incomplete", "delete_task"} ->
         IF ~TaskWithId(h.args.task_id) THEN "NotFound" ELSE "none"
    [] h.op \in {"update_study_plan", "delete_study_plan"} ->
         IF ~PlanWithId(h.args.plan_id) THEN "NotFound" ELSE "none"
    [] h.op \in {"update_subject", "delete_subject"} ->
         IF ~SubjectNamed(h.args.subject_name) THEN "NotFound" ELSE "none"
    [] OTHER -> "none"

\* C2: an operation whose existence or uniqueness precondition is violated
\* signals its error kind (Conflict or NotFound) and leaves the three tables
\* exactly as they were.
C2_ErrorsLeaveTablesUnchanged ==
  [][(nreq' = nreq + 1 /\ C2_Expected(last') # "none")
       => (last'.status = C2_Expected(last') /\ TablesUnchanged)]_vars

\* The requests of C2 other than those whose completionStatus is null (the
\* AttributeError of C9 comes before update_task's rowcount check): for
\* these the error kind and the unchanged tables hold.
C2_ExceptNullStatus ==
  [][(/\ nreq' = nreq + 1
      /\ C2_Expected(last') # "none"
      /\ ~(last'.op = "update_task" /\ last'.args.is_completed.given = "null"))
       => (last'.status = C2_Expected(last') /\ TablesUnchanged)]_vars

\* C3 as claimed: updateSubject fails with NotFound exactly when no Subject
\* is named oldName, and otherwise succeeds, the Subject keeping its id and
\* taking the new name, whatever other Subjects exist.
C3_RenameAlwaysSucceeds ==
  [][Served("update_subject") =>
       LET old == last'.args.subject_name
           new == last'.args.name
       IN /\ last'.status = "NotFound" <=> ~SubjectNamed(old)
          /\ SubjectNamed(old) =>
               /\ last'.status = "ok"
               /\ \A s \in subjects : s.name = old => [s EXCEPT !.name = new] \in subjects'
     ]_vars

\* C3 amended: NotFound exactly when no Subject is named oldName; when one is
\* and newName is the name of a different Subject, the rename fails with an
\* internal error and the tables stay as they were; in every other case it
\* succeeds, the Subject keeping its id and taking the new name, every other
\* Subject unchanged.
C3_RenameUnlessNameTaken ==
  [][Served("update_subject") =>
       LET old == last'.args.subject_name
           new == last'.args.name
           taken == \E s \in subjects : s.name = new /\ s.name # old
       IN /\ last'.status = "NotFound" <=> ~SubjectNamed(old)
          /\ ~SubjectNamed(old) => TablesUnchanged
          /\ (SubjectNamed(old) /\ taken) =>
               (last'.status = "InternalError" /\ TablesUnchanged)
          /\ (SubjectNamed(old) /\ ~taken) =>
               /\ last'.status = "ok"
               /\ subjects' = {IF s.name = old THEN [s EXCEPT !.name = new] ELSE s
                                 : s \in subjects}
               /\ tasks' = tasks /\ study_plans' = study_plans
     ]_vars

\* A seed Subject was renamed to a name no Subject had, and kept its id.
C3_Witness ==
  /\ last.op = "update_subject" /\ last.status = "ok"
  /\ last.args.subject_name # last.args.name
  /\ \E s \in subjects : s.name = last.args.name /\ s.name = "Music" /\ s.id <= Len(sample_subjects)

\* C4: after a successful deleteSubject(name) every Task row is as it was,
\* the Tasks of the deleted Subject are still served by id (completeTask,
\* markTaskIncomplete, updateTask, deleteTask succeed on them), and
\* listTasksForSubject(name) fails with NotFound.
C4_DeleteSubjectKeepsTasks ==
  [][(Served("delete_subject") /\ last'.status = "ok") =>
       LET name == last'.args.subject_name
           gone == {s \in subjects : s.name = name}
           m == Store'
           byId(op, pc, id) == Run(m, NewRequest(op, [task_id |-> id], pc)).h.status
       IN /\ gone # {}
          /\ subjects' = subjects \ gone
          /\ tasks' = tasks
          /\ \A t \in tasks : (\E s \in gone : t.subject_id = s.id) =>
               /\ t \in tasks'
               /\ byId("complete_task", 142, t.id) = "ok"
               /\ byId("mark_task_incomplete", 229, t.id) = "ok"
               /\ byId("delete_task", 190, t.id) = "ok"
               /\ \A s \in subjects' :
                    Run(m, NewRequest("update_task",
                          TaskModel(s.name, t.title, t.due_date, JsonStr(S_incomplete))
                            @@ [task_id |-> t.id], 166)).h.status = "ok"
          /\ Run(m, NewRequest("get_tasks_for_subject", [subject_name |-> name], 126)).h.status
               = "NotFound"
     ]_vars

\* A Subject that had Tasks was just deleted: its Tasks are orphans.
C4_Witness ==
  /\ last.op = "delete_subject" /\ last.status = "ok"
  /\ \E t \in tasks : \A s \in subjects : s.id # t.subject_id
  /\ ~SubjectNamed(last.args.subject_name)

\* C5: listAllTasks returns one entry for every row of table tasks, also
\* after Subjects have been deleted.
C5_ListAllTasksIsComplete ==
  (last.op = "get_all_tasks" /\ last.status = "ok") =>
    /\ Len(last.result) = Cardinality(tasks)
    /\ \A t \in tasks : \E e \in Entries(last.result) : e.id = t.id

\* What one completion request must do to the tasks table, and what the
\* reads must then report for the Task.
C6_SetsFlag(id, flag, shown) ==
  /\ last'.status = "ok"
  /\ tasks' = {IF t.id = id THEN [t EXCEPT !.is_completed = flag] ELSE t : t \in tasks}
  /\ subjects' = subjects /\ study_plans' = study_plans
  /\ LET m == Store'
         all == Run(m, NewRequest("get_all_tasks", <<>>, 151)).h
         of(name) ==
           Run(m, NewRequest("get_tasks_for_subject", [subject_name |-> name], 126)).h
         reads == Entries(all.result) \cup UNION {Entries(of(s.name).result) : s \in subjects'}
     IN \A e \in reads : e.id = id => e.is_completed = shown

\* C6: for an existing Task, whatever its completion state, completeTask
\* makes every read of it report "complete" and markTaskIncomplete makes
\* every read report "incomplete"; no other field and no other Task changes.
C6_CompletionRoundTrips ==
  [][/\ (Served("complete_task") /\ TaskWithId(last'.args.task_id)) =>
          C6_SetsFlag(last'.args.task_id, 1, "complete")
     /\ (Served("mark_task_incomplete") /\ TaskWithId(last'.args.task_id)) =>
          C6_SetsFlag(last'.args.task_id, 0, "incomplete")
    ]_vars

\* A Task that was completed and has been marked incomplete since is listed
\* as "incomplete" by listAllTasks.
C6_Witness ==
  /\ last.op = "mark_task_incomplete" /\ last.status = "ok"
  /\ nreq >= 2
  /\ \E e \in Entries(ListAllTasks.result) :
       e.id = last.args.task_id /\ e.is_completed = "incomplete"

\* C7: with no other operation, any number of startups leaves exactly the
\* five seed subjects and the five seed tasks.
C7_BootstrapIdempotent ==
  nreq = 0 =>
    /\ subjects = Bootstrap(EmptyStore).subjects
    /\ tasks = Bootstrap(EmptyStore).tasks

\* C8: subjectsWithTaskCount returns exactly one entry per stored Subject,
\* with the number of Task rows whose subject_id is that Subject's id, 0
\* included.
C8_TaskCountPerSubject ==
  (last.op = "get_subjects_with_task_count") =>
    /\ last.status = "ok"
    /\ Len(last.result) = Cardinality(subjects)
    /\ \A s \in subjects :
         \E e \in Entries(last.result) :
           /\ e.id = s.id /\ e.name = s.name
           /\ e.task_count = Cardinality({t \in tasks : t.subject_id = s.id})

\* The counts were read when one Subject had no Task and another had two.
C8_Witness ==
  /\ last.op = "get_subjects_with_task_count"
  /\ \E e \in Entries(last.result) : e.task_count = 0
  /\ \E e \in Entries(last.result) : e.task_count >= 2

\* The flag the claim gives a completionStatus: 1 exactly for "complete" in
\* any letter case, 0 for anything else, null included.
C9_Flag(f) == IF f.given = "str" /\ Lower(f.s) = S_complete THEN 1 ELSE 0

\* C9: createTask and updateTask on an existing Subject succeed for every
\* completionStatus, absent ones included, and store is_completed = 1
\* exactly when it is "complete" ignoring case.
C9_StatusMapsToFlag ==
  [][/\ (Served("create_task") /\ SubjectNamed(last'.args.subject_name)) =>
          /\ last'.status = "ok"
          /\ \E t \in tasks' \ tasks : t.is_completed = C9_Flag(last'.args.is_completed)
     /\ (Served("update_task") /\ SubjectNamed(last'.args.subject_name)
           /\ TaskWithId(last'.args.task_id)) =>
          /\ last'.status = "ok"
          /\ \E t \in tasks' :
               t.id = last'.args.task_id /\ t.is_completed = C9_Flag(last'.args.is_completed)
    ]_vars

\* The requests of C9 whose completionStatus is a string or left out: they
\* succeed and store the flag of C9.
C9_ExceptNullStatus ==
  [][/\ (Served("create_task") /\ SubjectNamed(last'.args.subject_name)
           /\ last'.args.is_completed.given # "null") =>
          /\ last'.status = "ok"
          /\ \E t \in tasks' \ tasks : t.is_completed = C9_Flag(last'.args.is_completed)
     /\ (Served("update_task") /\ SubjectNamed(last'.args.subject_name)
           /\ TaskWithId(last'.args.task_id)
           /\ last'.args.is_completed.given # "null") =>
          /\ last'.status = "ok"
          /\ \E t \in tasks' :
               t.id = last'.args.task_id /\ t.is_completed = C9_Flag(last'.args.is_completed)
    ]_vars

\* C10: under statement interleaving on the shared cursor, the row createTask
\* inserts carries the id of a Subject named subjectName (one that has held
\* that name in the store), so a createTask naming a Subject that never
\* existed inserts nothing.
C10_CreateTaskUsesItsSubject ==
  [][\A t \in Threads :
       (req[t].op = "create_task" /\ req[t].pc = 116 /\ req'[t].pc = 0) =>
         \A r \in tasks' \ tasks :
           [id |-> r.subject_id, name |-> req[t].args.subject_name] \in named
    ]_vars


====
